---- MODULE Spec2Model ----
(***************************************************************************)
(* The path-prefix reverse proxy of src/unnamed/part_000 (second server,   *)
(* lines 93-217): an express application with cookie-parser, a static      *)
(* handler, the homepage route, one mounted proxy per entry of             *)
(* proxiedApps, the dynamic fallback proxy and the 404 handler.            *)
(*                                                                         *)
(* Strings the code inspects character by character (paths, Referer,       *)
(* cookie values, Location) are sequences of one-character strings, so     *)
(* startsWith / includes / the pathRewrite regular expression are computed *)
(* as the code computes them.  An absent header and the empty string are   *)
(* both the empty sequence: every test the code makes on them is a         *)
(* truthiness test, which cannot tell them apart.                          *)
(***************************************************************************)
EXTENDS Integers, Sequences, FiniteSets, TLC

VARIABLES
    pc,      \* per client: the middleware the client's request stands before
    req,     \* per client: the request (method, originalUrl, url, headers)
    fwd,     \* per client: what was handed to the transport (target, path,
             \* how many times)
    proxyRes,\* per client: the backend's answer as the transport received it
    res,     \* per client: the response the router gives to the client
    jar,     \* per client: the x-proxied-app cookie the browser holds
    lastExplicit, \* per client: registry index of its latest mounted-route hit
    boot     \* the process: its registry, the routes mounted, its phase

vars == <<pc, req, fwd, proxyRes, res, jar, lastExplicit, boot>>

\* The clients (browsers) of the server, and the one that is alone in the
\* single-client specifications.
Clients == {"c1", "c2"}
Solo == {"c1"}

-----------------------------------------------------------------------------
(* String helpers: String.prototype.startsWith / includes, and truthiness. *)

Absent == <<>>

Truthy(s) == Len(s) > 0

startsWith(s, p) ==
    /\ Len(p) <= Len(s)
    /\ SubSeq(s, 1, Len(p)) = p

includes(s, p) ==
    \E i \in 1..(Len(s) - Len(p) + 1) : SubSeq(s, i, i + Len(p) - 1) = p

Tail0(s, n) == SubSeq(s, n + 1, Len(s))

\* The position of the first "?" of a URL, or Len + 1 when it has none.
QueryAt(u) ==
    IF \E i \in 1..Len(u) : u[i] = "?"
    THEN CHOOSE i \in 1..Len(u) : u[i] = "?" /\ \A j \in 1..(i - 1) : u[j] # "?"
    ELSE Len(u) + 1

\* req.path: the pathname of the URL, without the query string.
PathName(u) == SubSeq(u, 1, QueryAt(u) - 1)

-----------------------------------------------------------------------------
(* The registry.                                                           *)

movieHub == <<"/","m","o","v","i","e","-","h","u","b">>
todoList == <<"/","t","o","d","o","-","l","i","s","t">>
youtubeAiQuizzer ==
    <<"/","y","o","u","t","u","b","e","-","a","i","-","q","u","i","z","z","e","r">>
mcq == <<"/","m","c","q">>
bookmarkManager ==
    <<"/","b","o","o","k","m","a","r","k","-","m","a","n","a","g","e","r">>

proxiedApps == <<
    [name |-> "Movie Hub", path |-> movieHub, target |-> "http://34.134.191.116:4002"],
    [name |-> "Todo List", path |-> todoList, target |-> "http://34.134.191.116:3001"],
    [name |-> "YouTube AI Quizzer", path |-> youtubeAiQuizzer,
     target |-> "http://34.134.191.116:5001"],
    [name |-> "AI MCQ Generator", path |-> mcq, target |-> "http://34.134.191.116:5002"],
    [name |-> "Bookmark Manager", path |-> bookmarkManager,
     target |-> "http://34.134.191.116:5003"] >>

AppIdx == 1..Len(proxiedApps)

\* Array.prototype.find over the registry, given the set of indices whose
\* entries satisfy the callback: the first of them, 0 for undefined.
find(S) == IF S = {} THEN 0 ELSE CHOOSE i \in S : \A j \in S : i <= j

\* Array.prototype.some, likewise.
some(S) == S # {}

-----------------------------------------------------------------------------
(* Cookie encoding: res.cookie writes encodeURIComponent(value), the       *)
(* browser stores and returns it verbatim, cookie-parser decodes it.       *)

RECURSIVE encodeURIComponent(_)
encodeURIComponent(s) ==
    IF s = <<>> THEN <<>>
    ELSE (IF Head(s) = "/" THEN <<"%","2","F">> ELSE <<Head(s)>>)
            \o encodeURIComponent(Tail(s))

RECURSIVE decodeURIComponent(_)
decodeURIComponent(s) ==
    IF s = <<>> THEN <<>>
    ELSE IF Len(s) >= 3 /\ SubSeq(s, 1, 3) = <<"%","2","F">>
         THEN <<"/">> \o decodeURIComponent(Tail0(s, 3))
         ELSE <<Head(s)>> \o decodeURIComponent(Tail(s))

\* req.cookies['x-proxied-app'] as cookie-parser leaves it.
cookieParser(r) == decodeURIComponent(r.cookie)

-----------------------------------------------------------------------------
(* The transport: http-proxy-middleware over http-proxy.                   *)

\* Faulty variant of pathRewritePrefix: the rule is missing, the path
\* goes out as it came in.
pathRewriteMissing(prefix, path) == path

\* pathRewrite: { '^<prefix>': '/' }: the first match of the anchored
\* pattern is replaced by "/".
pathRewritePrefix(prefix, path) ==
    IF startsWith(path, prefix) THEN <<"/">> \o Tail0(path, Len(prefix)) ELSE path

\* pathRewrite: (path, req) => path
pathRewriteIdentity(path) == path

RECURSIVE CollapseSlashes(_)
CollapseSlashes(s) ==
    IF Len(s) < 2 THEN s
    ELSE IF s[1] = "/" /\ s[2] = "/" THEN CollapseSlashes(Tail(s))
         ELSE <<Head(s)>> \o CollapseSlashes(Tail(s))

\* The path of the outgoing request: the target's path ("/" for a target
\* that is a bare origin) joined with the rewritten URL; the join turns
\* every run of slashes of the path part into one and leaves the query.
OutgoingPath(url) ==
    CollapseSlashes(<<"/", "/">> \o PathName(url)) \o Tail0(url, QueryAt(url) - 1)

-----------------------------------------------------------------------------
(* Inputs: the requests clients send and the answers backends give.        *)

h == <<"h",":","/","/","p">>
slash == <<"/">>
x == <<"/","x">>
done == <<"/","d","o","n","e">>
indexHtml == <<"/","i","n","d","e","x",".","h","t","m","l">>
submit == <<"/","s","u","b","m","i","t">>
\* A cookie value that names no registered prefix.
stale == <<"/","m","c","q","2">>

\* The registry entries the enumerated inputs name.
InputApps == {1, 4}

Methods == {"GET", "POST"}

\* The longest remainder, in segments, that follows a prefix in a URL.
MaxSegs == 2

RECURSIVE Segs(_)
Segs(k) == IF k = 0 THEN <<>> ELSE x \o Segs(k - 1)

\* What follows the prefix in the URLs of prefixed requests: nothing, "/",
\* one or more segments, and the prefix itself once more.
Remainders(i) ==
    {<<>>, slash, proxiedApps[i].path} \cup {Segs(k) : k \in 1..MaxSegs}

Urls ==
    {slash, slash \o <<"?","a">>, indexHtml, submit,
     movieHub \o <<"-","e","x","t","r","a">>}
    \cup UNION {{proxiedApps[i].path \o r : r \in Remainders(i)} : i \in InputApps}

Referers ==
    {Absent, h \o slash, h \o mcq \o slash, h \o mcq \o movieHub}

CookieHeaders ==
    {Absent, encodeURIComponent(stale)}
    \cup {encodeURIComponent(proxiedApps[i].path) : i \in InputApps}

Statuses == {200, 299, 300, 302, 399, 400}

Locations ==
    {Absent, done, h \o done}
    \cup {proxiedApps[i].path \o done : i \in InputApps}

\* Files of the public directory that express.static can serve: the
\* directory index for "/" and the index file itself.
StaticPaths == {slash, indexHtml}

-----------------------------------------------------------------------------
(* State.                                                                  *)

NoReq == [method |-> "", originalUrl |-> <<>>, url |-> <<>>,
          referer |-> <<>>, cookie |-> <<>>]
NoFwd == [app |-> 0, via |-> "none", target |-> "", path |-> <<>>, attempts |-> 0]
NoProxyRes == [statusCode |-> 0, location |-> <<>>]
NoRes == [kind |-> "none", status |-> 0, location |-> <<>>, setCookie |-> <<>>]

\* The process once app.listen has run on a registry: every entry mounted.
Listening(registry) ==
    [phase |-> "listening", registry |-> registry,
     mounted |-> [i \in 1..Len(registry) |-> registry[i].path]]

Init ==
    /\ pc = [c \in Clients |-> "idle"]
    /\ req = [c \in Clients |-> NoReq]
    /\ fwd = [c \in Clients |-> NoFwd]
    /\ proxyRes = [c \in Clients |-> NoProxyRes]
    /\ res = [c \in Clients |-> NoRes]
    /\ jar = [c \in Clients |-> Absent]
    /\ lastExplicit = [c \in Clients |-> 0]
    /\ boot = Listening(proxiedApps)

-----------------------------------------------------------------------------
(* The middleware chain, in registration order.                            *)

\* A client sends a request; cookie-parser has run when the request stands
\* before the static handler.  The Cookie header is the browser's jar or
\* any value a client chooses to send.
ArriveFrom(c, methods, urls, referers, cookies) ==
    /\ boot.phase = "listening"
    /\ pc[c] = "idle"
    /\ \E m \in methods, u \in urls, rf \in referers,
          ck \in cookies \cup {jar[c]} :
          req' = [req EXCEPT ![c] = [method |-> m, originalUrl |-> u, url |-> u,
                                     referer |-> rf, cookie |-> ck]]
    /\ pc' = [pc EXCEPT ![c] = "static"]
    /\ UNCHANGED <<fwd, proxyRes, res, jar, lastExplicit, boot>>

Arrive(c) == ArriveFrom(c, Methods, Urls, Referers, CookieHeaders)

\* express.static: answers a GET whose path is a file of the public
\* directory; whether the directory holds the file is not known to the
\* router, so both outcomes are possible.  Every other request passes on.
Static(c) ==
    /\ pc[c] = "static"
    /\ \/ /\ req[c].method = "GET"
          /\ PathName(req[c].url) \in StaticPaths
          /\ res' = [res EXCEPT ![c] = [@ EXCEPT !.kind = "static", !.status = 200]]
          /\ pc' = [pc EXCEPT ![c] = "responded"]
       \/ /\ pc' = [pc EXCEPT ![c] = "homepage"]
          /\ UNCHANGED res
    /\ UNCHANGED <<req, fwd, proxyRes, jar, lastExplicit, boot>>

\* Faulty variant of isHomepage: the homepage route takes nothing.
isHomepageNever(r) == FALSE

\* The route of app.get('/'): a GET whose path is "/".
isHomepage(r) == r.method = "GET" /\ PathName(r.url) = slash

\* app.get('/'): the landing page.
Homepage(c) ==
    /\ pc[c] = "homepage"
    /\ IF isHomepage(req[c])
       THEN /\ res' = [res EXCEPT ![c] = [@ EXCEPT !.kind = "landing", !.status = 200]]
            /\ pc' = [pc EXCEPT ![c] = "responded"]
       ELSE /\ pc' = [pc EXCEPT ![c] = "explicit"]
            /\ UNCHANGED res
    /\ UNCHANGED <<req, fwd, proxyRes, jar, lastExplicit, boot>>

\* app.use(mountPath, ...): the mount path matches only at a segment
\* boundary (all paths here are lower case, as the mount paths are).
MountMatches(mountPath, path) ==
    /\ startsWith(path, mountPath)
    /\ \/ Len(path) = Len(mountPath)
       \/ path[Len(mountPath) + 1] = "/"

\* The URL a mounted handler sees: the mount path removed, "/" put in
\* front when what is left does not start with one.
MountedUrl(mountPath, u) ==
    LET rest == Tail0(u, Len(mountPath))
    IN IF startsWith(rest, slash) THEN rest ELSE slash \o rest

\* The first mounted route, in registration order, that takes the path.
MountFor(path) == find({k \in AppIdx : MountMatches(proxiedApps[k].path, path)})

\* res.cookie('x-proxied-app', value, ...): the Set-Cookie value written.
resCookie(value) == encodeURIComponent(value)

\* Faulty variant of affinityCookieValue: a cookie the request already
\* carries is kept, the prefix is written only when there is none.
affinityCookieKept(i, r) ==
    IF Truthy(cookieParser(r)) THEN cookieParser(r) ELSE proxiedApps[i].path

\* Faulty variant of affinityCookieValue: the URL of the request is written
\* in place of the prefix of the route.
affinityCookieOriginalUrl(i, r) == r.originalUrl

\* The value the mounted route gives the cookie: appConfig.path.
affinityCookieValue(i, r) == proxiedApps[i].path

\* The proxy middleware of a mounted route: the rewrite applies to the
\* original URL, not to the URL express left to the mounted handler.
ExplicitForward(i, r) ==
    [app |-> i, via |-> "explicit", target |-> proxiedApps[i].target,
     path |-> OutgoingPath(pathRewritePrefix(proxiedApps[i].path, r.originalUrl)),
     attempts |-> 1]

\* Faulty variant of Explicit: the cookie is put on a response object that
\* all requests in hand share.
ExplicitSharedCookie(c) ==
    /\ pc[c] = "explicit"
    /\ LET i == MountFor(PathName(req[c].url))
       IN IF i # 0
          THEN /\ req' = [req EXCEPT ![c].url = MountedUrl(proxiedApps[i].path, @)]
               /\ res' = [d \in Clients |->
                            IF d = c \/ pc[d] # "idle"
                            THEN [res[d] EXCEPT !.setCookie =
                                     resCookie(affinityCookieValue(i, req[c]))]
                            ELSE res[d]]
               /\ fwd' = [fwd EXCEPT ![c] = ExplicitForward(i, req[c])]
               /\ lastExplicit' = [lastExplicit EXCEPT ![c] = i]
               /\ pc' = [pc EXCEPT ![c] = "proxying"]
          ELSE /\ pc' = [pc EXCEPT ![c] = "fallback"]
               /\ UNCHANGED <<req, res, fwd, lastExplicit>>
    /\ UNCHANGED <<proxyRes, jar, boot>>

\* proxiedApps.forEach(app.use(appConfig.path, ...)): set the cookie, proxy.
Explicit(c) ==
    /\ pc[c] = "explicit"
    /\ LET i == MountFor(PathName(req[c].url))
       IN IF i # 0
          THEN /\ req' = [req EXCEPT ![c].url = MountedUrl(proxiedApps[i].path, @)]
               /\ res' = [res EXCEPT ![c].setCookie = resCookie(affinityCookieValue(i, req[c]))]
               /\ fwd' = [fwd EXCEPT ![c] = ExplicitForward(i, req[c])]
               /\ lastExplicit' = [lastExplicit EXCEPT ![c] = i]
               /\ pc' = [pc EXCEPT ![c] = "proxying"]
          ELSE /\ pc' = [pc EXCEPT ![c] = "fallback"]
               /\ UNCHANGED <<req, res, fwd, lastExplicit>>
    /\ UNCHANGED <<proxyRes, jar, boot>>

\* const isExplicitProxiedPath = proxiedApps.some(... startsWith ...)
isExplicitProxiedPath(r) == some({k \in AppIdx : startsWith(r.originalUrl, proxiedApps[k].path)})

\* proxiedApps.find(appConfig => req.headers.referer.includes(appConfig.path))
matchedAppByReferer(r) == find({k \in AppIdx : includes(r.referer, proxiedApps[k].path)})

\* Faulty variant of matchedAppByCookie: the cookie is compared with
\* startsWith, as the URL is, instead of ===.
matchedAppByCookiePrefix(r) == find({k \in AppIdx : startsWith(cookieParser(r), proxiedApps[k].path)})

\* proxiedApps.find(appConfig => appConfig.path === req.cookies['x-proxied-app'])
matchedAppByCookie(r) == find({k \in AppIdx : proxiedApps[k].path = cookieParser(r)})

\* Faulty variant of sourceAppConfig: a request that no hint resolves goes
\* to the first application of the registry.
sourceAppConfigDefault(r) ==
    IF Truthy(r.referer) /\ matchedAppByReferer(r) # 0
    THEN [app |-> matchedAppByReferer(r), via |-> "referer"]
    ELSE IF Truthy(cookieParser(r)) /\ matchedAppByCookie(r) # 0
         THEN [app |-> matchedAppByCookie(r), via |-> "cookie"]
         ELSE [app |-> 1, via |-> "cookie"]

\* Faulty variant of sourceAppConfig: the cookie is never consulted.
sourceAppConfigRefererOnly(r) ==
    IF Truthy(r.referer) /\ matchedAppByReferer(r) # 0
    THEN [app |-> matchedAppByReferer(r), via |-> "referer"]
    ELSE [app |-> 0, via |-> "none"]

\* Faulty variant of sourceAppConfig: the cookie is looked up first, the
\* Referer only when the cookie gave nothing.
sourceAppConfigCookieFirst(r) ==
    IF Truthy(cookieParser(r)) /\ matchedAppByCookie(r) # 0
    THEN [app |-> matchedAppByCookie(r), via |-> "cookie"]
    ELSE IF Truthy(r.referer) /\ matchedAppByReferer(r) # 0
         THEN [app |-> matchedAppByReferer(r), via |-> "referer"]
         ELSE [app |-> 0, via |-> "none"]

\* The fallback's sourceAppConfig, with the hint that produced it: the
\* Referer first, the cookie only when the Referer gave nothing.
sourceAppConfig(r) ==
    LET byReferer == IF Truthy(r.referer) THEN matchedAppByReferer(r) ELSE 0
    IN IF byReferer # 0
       THEN [app |-> byReferer, via |-> "referer"]
       ELSE IF Truthy(cookieParser(r)) /\ matchedAppByCookie(r) # 0
            THEN [app |-> matchedAppByCookie(r), via |-> "cookie"]
            ELSE [app |-> 0, via |-> "none"]

\* The per-request proxy of the fallback: pathRewrite is the identity.
DynamicForward(src, r) ==
    [app |-> src.app, via |-> src.via, target |-> proxiedApps[src.app].target,
     path |-> OutgoingPath(pathRewriteIdentity(r.originalUrl)),
     attempts |-> 1]

\* The fallback's two early returns: the homepage, and a URL that starts
\* with a registered prefix.
FallbackSkips(r) ==
    \/ r.method = "GET" /\ PathName(r.url) = slash
    \/ isExplicitProxiedPath(r)

\* Faulty variant of Fallback: after handing the request to the proxy the
\* middleware also calls next().
FallbackAlsoNext(c) ==
    /\ pc[c] = "fallback"
    /\ IF ~FallbackSkips(req[c]) /\ sourceAppConfig(req[c]).app # 0
       THEN fwd' = [fwd EXCEPT ![c] = DynamicForward(sourceAppConfig(req[c]), req[c])]
       ELSE UNCHANGED fwd
    /\ pc' = [pc EXCEPT ![c] = "notFound"]
    /\ UNCHANGED <<req, proxyRes, res, jar, lastExplicit, boot>>

\* The dynamic fallback proxy.
Fallback(c) ==
    /\ pc[c] = "fallback"
    /\ IF ~FallbackSkips(req[c]) /\ sourceAppConfig(req[c]).app # 0
       THEN /\ fwd' = [fwd EXCEPT ![c] = DynamicForward(sourceAppConfig(req[c]), req[c])]
            /\ pc' = [pc EXCEPT ![c] = "proxying"]
       ELSE /\ pc' = [pc EXCEPT ![c] = "notFound"]
            /\ UNCHANGED fwd
    /\ UNCHANGED <<req, proxyRes, res, jar, lastExplicit, boot>>

\* The 404 handler.
NotFound(c) ==
    /\ pc[c] = "notFound"
    /\ res' = [res EXCEPT ![c] = [@ EXCEPT !.kind = "notFound", !.status = 404]]
    /\ pc' = [pc EXCEPT ![c] = "responded"]
    /\ UNCHANGED <<req, fwd, proxyRes, jar, lastExplicit, boot>>

-----------------------------------------------------------------------------
(* The return path: commonProxyOptions.                                    *)

\* Faulty variant of IsRedirect: the range of statuses is closed at 400.
IsRedirectUpTo400(pr) ==
    /\ pr.statusCode >= 300
    /\ pr.statusCode <= 400
    /\ Truthy(pr.location)

\* proxyRes.statusCode >= 300 && proxyRes.statusCode < 400 && headers.location
IsRedirect(pr) ==
    /\ pr.statusCode >= 300
    /\ pr.statusCode < 400
    /\ Truthy(pr.location)

\* proxiedApps.find(appConfig => req.originalUrl.startsWith(appConfig.path))
matchedAppByPath(r) == find({k \in AppIdx : startsWith(r.originalUrl, proxiedApps[k].path)})

\* The appPrefix of onProxyRes (0 for null): an if / else-if chain over the
\* request's URL, its Referer and its cookie.
appPrefix(r) ==
    IF matchedAppByPath(r) # 0 THEN matchedAppByPath(r)
    ELSE IF Truthy(r.referer) THEN matchedAppByReferer(r)
    ELSE IF Truthy(cookieParser(r)) THEN matchedAppByCookie(r)
    ELSE 0

\* const newLocation = `${appPrefix}${originalLocation}`
newLocation(i, originalLocation) == proxiedApps[i].path \o originalLocation

\* onProxyRes: the Location header the client is given.
onProxyRes(pr, r) ==
    IF IsRedirect(pr) /\ startsWith(pr.location, slash) /\ appPrefix(r) # 0
    THEN newLocation(appPrefix(r), pr.location)
    ELSE pr.location

\* The backend answers; the transport hands status and headers to
\* onProxyRes and then to the client.
ProxyResFrom(c, statuses, locations) ==
    /\ pc[c] = "proxying"
    /\ \E st \in statuses, loc \in locations :
          LET pr == [statusCode |-> st, location |-> loc]
          IN /\ proxyRes' = [proxyRes EXCEPT ![c] = pr]
             /\ res' = [res EXCEPT ![c] = [@ EXCEPT !.kind = "proxied",
                                                    !.status = pr.statusCode,
                                                    !.location = onProxyRes(pr, req[c])]]
    /\ pc' = [pc EXCEPT ![c] = "responded"]
    /\ UNCHANGED <<req, fwd, jar, lastExplicit, boot>>

ProxyRes(c) == ProxyResFrom(c, Statuses, Locations)

\* Faulty variant of ProxyError: a failed forward is made once more before
\* the error is reported.
ProxyErrorRetry(c) ==
    /\ pc[c] = "proxying"
    /\ IF fwd[c].attempts < 2
       THEN /\ fwd' = [fwd EXCEPT ![c].attempts = @ + 1]
            /\ UNCHANGED <<pc, res>>
       ELSE /\ res' = [res EXCEPT ![c] = [@ EXCEPT !.kind = "proxyError", !.status = 500]]
            /\ pc' = [pc EXCEPT ![c] = "responded"]
            /\ UNCHANGED fwd
    /\ UNCHANGED <<req, proxyRes, jar, lastExplicit, boot>>

\* Faulty variant of ProxyError: the error answer is built afresh, without
\* the headers set before the forward.
ProxyErrorDropsHeaders(c) ==
    /\ pc[c] = "proxying"
    /\ res' = [res EXCEPT ![c] = [NoRes EXCEPT !.kind = "proxyError", !.status = 500]]
    /\ pc' = [pc EXCEPT ![c] = "responded"]
    /\ UNCHANGED <<req, fwd, proxyRes, jar, lastExplicit, boot>>

\* onError: the transport could not reach the backend.
ProxyError(c) ==
    /\ pc[c] = "proxying"
    /\ res' = [res EXCEPT ![c] = [@ EXCEPT !.kind = "proxyError", !.status = 500]]
    /\ pc' = [pc EXCEPT ![c] = "responded"]
    /\ UNCHANGED <<req, fwd, proxyRes, jar, lastExplicit, boot>>

-----------------------------------------------------------------------------
(* The client side of the cookie.                                          *)

\* The browser takes the response: a Set-Cookie replaces the jar's value.
\* The request is over: nothing of it is kept on the server.
Deliver(c) ==
    /\ pc[c] = "responded"
    /\ jar' = [jar EXCEPT ![c] = IF Truthy(res[c].setCookie) THEN res[c].setCookie ELSE @]
    /\ pc' = [pc EXCEPT ![c] = "idle"]
    /\ req' = [req EXCEPT ![c] = NoReq]
    /\ fwd' = [fwd EXCEPT ![c] = NoFwd]
    /\ proxyRes' = [proxyRes EXCEPT ![c] = NoProxyRes]
    /\ res' = [res EXCEPT ![c] = NoRes]
    /\ UNCHANGED <<lastExplicit, boot>>

\* maxAge: 3600000 -- the cookie expires in the browser.
Expire(c) ==
    /\ pc[c] = "idle"
    /\ Truthy(jar[c])
    /\ jar' = [jar EXCEPT ![c] = Absent]
    /\ UNCHANGED <<pc, req, fwd, proxyRes, res, lastExplicit, boot>>

\* One client, all the inputs.
Next ==
    \E c \in Solo :
        \/ Arrive(c)
        \/ Static(c)
        \/ Homepage(c)
        \/ Explicit(c)
        \/ Fallback(c)
        \/ NotFound(c)
        \/ ProxyRes(c)
        \/ ProxyError(c)
        \/ Deliver(c)
        \/ Expire(c)

Spec == Init /\ [][Next]_vars

-----------------------------------------------------------------------------
(* The server under fair scheduling, on inputs that take every branch of   *)
(* the chain.                                                              *)

FairMethods == {"GET", "POST"}
FairUrls == {slash, submit, mcq \o x, movieHub \o <<"-","e","x","t","r","a">>}
FairReferers == {Absent, h \o mcq \o slash}
FairCookies == {Absent}
FairStatuses == {200, 302}
FairLocations == {Absent, done}

ArriveFair(c) == ArriveFrom(c, FairMethods, FairUrls, FairReferers, FairCookies)
ProxyResFair(c) == ProxyResFrom(c, FairStatuses, FairLocations)

NextFair ==
    \E c \in Solo :
        \/ ArriveFair(c)
        \/ Static(c)
        \/ Homepage(c)
        \/ Explicit(c)
        \/ Fallback(c)
        \/ NotFound(c)
        \/ ProxyResFair(c)
        \/ ProxyError(c)
        \/ Deliver(c)
        \/ Expire(c)

\* A step of the server on the request of c: the middleware that holds it
\* runs, or the transport answers or reports failure.
Serve(c) ==
    \/ Static(c)
    \/ Homepage(c)
    \/ Explicit(c)
    \/ Fallback(c)
    \/ NotFound(c)
    \/ ProxyResFair(c)
    \/ ProxyError(c)

\* The server does not stop serving a request it holds; clients need not
\* send requests nor take their answers.
Fairness == \A c \in Clients : WF_vars(Serve(c))

FairSpec == Init /\ [][NextFair]_vars /\ Fairness

-----------------------------------------------------------------------------
(* Two clients served at once: the handlers of their requests interleave   *)
(* at every step, the wait for the backend included.                       *)

ConcMethods == {"POST"}
ConcUrls == {submit, mcq \o x, movieHub \o x}
ConcReferers == {Absent, h \o mcq \o slash}
ConcCookies == {Absent}
ConcStatuses == {200, 302}
ConcLocations == {done}

ArriveConc(c) == ArriveFrom(c, ConcMethods, ConcUrls, ConcReferers, ConcCookies)
ProxyResConc(c) == ProxyResFrom(c, ConcStatuses, ConcLocations)

NextConc ==
    \E c \in Clients :
        \/ ArriveConc(c)
        \/ Static(c)
        \/ Homepage(c)
        \/ Explicit(c)
        \/ Fallback(c)
        \/ NotFound(c)
        \/ ProxyResConc(c)
        \/ ProxyError(c)
        \/ Deliver(c)
        \/ Expire(c)

SpecConc == Init /\ [][NextConc]_vars

-----------------------------------------------------------------------------
(* Startup: the script of the server run on a registry, from the first     *)
(* app.use of section 5 to app.listen.                                     *)

\* The most entries a registry given to the startup has.
MaxApps == 3

\* The descriptors registries are made of: entries of proxiedApps, and one
\* more application that asks for a prefix already taken.
Descriptors ==
    {proxiedApps[i] : i \in InputApps}
    \cup {[name |-> "Quiz Archive", path |-> mcq, target |-> "http://34.134.191.116:5009"]}

Registries == UNION {[1..n -> Descriptors] : n \in 1..MaxApps}

\* Two entries of the registry share a path.
HasDuplicatePrefix(registry) ==
    \E i, j \in 1..Len(registry) : i # j /\ registry[i].path = registry[j].path

InitStartup ==
    /\ pc = [c \in Clients |-> "idle"]
    /\ req = [c \in Clients |-> NoReq]
    /\ fwd = [c \in Clients |-> NoFwd]
    /\ proxyRes = [c \in Clients |-> NoProxyRes]
    /\ res = [c \in Clients |-> NoRes]
    /\ jar = [c \in Clients |-> Absent]
    /\ lastExplicit = [c \in Clients |-> 0]
    /\ \E registry \in Registries :
          boot = [phase |-> "configuring", registry |-> registry, mounted |-> <<>>]

\* One turn of proxiedApps.forEach: app.use(appConfig.path, ...), whatever
\* was mounted before.
Mount ==
    /\ boot.phase = "configuring"
    /\ Len(boot.mounted) < Len(boot.registry)
    /\ boot' = [boot EXCEPT !.mounted =
                    Append(@, boot.registry[Len(boot.mounted) + 1].path)]
    /\ UNCHANGED <<pc, req, fwd, proxyRes, res, jar, lastExplicit>>

\* The rest of the script: fallback, 404 handler, app.listen.
Listen ==
    /\ boot.phase = "configuring"
    /\ Len(boot.mounted) = Len(boot.registry)
    /\ boot' = [boot EXCEPT !.phase = "listening"]
    /\ UNCHANGED <<pc, req, fwd, proxyRes, res, jar, lastExplicit>>

NextStartup == Mount \/ Listen

SpecStartup == InitStartup /\ [][NextStartup]_vars

-----------------------------------------------------------------------------
(* src/server.js: the router with one option object per application and a  *)
(* catch-all proxy in place of the fallback resolver.                      *)

aiMcqGenerator == <<"/","a","i","-","m","c","q","-","g","e","n","e","r","a","t","o","r">>
css == <<"/","c","s","s">>

\* The option objects; the callbacks only log, but for onError.
ProxyOptions(target) ==
    [target |-> target, changeOrigin |-> TRUE, ws |-> TRUE, logLevel |-> "debug"]

mcqProxyOptions == ProxyOptions("http://34.134.191.116:5002")
aimcqOptions == ProxyOptions("http://34.134.191.116:5001")
bookmarkOptions == ProxyOptions("http://34.134.191.116:5003")
movieOptions == ProxyOptions("http://34.134.191.116:4002")
todoOptions == ProxyOptions("http://34.134.191.116:3001")

\* { ...a, ...b }: the properties of a, then those of b over them.
Spread(a, b) ==
    [k \in DOMAIN a \cup DOMAIN b |-> IF k \in DOMAIN b THEN b[k] ELSE a[k]]

\* app.use(path, createProxyMiddleware({ ...options, pathRewrite })), in
\* registration order.
serverJsMounts ==
    << [path |-> aiMcqGenerator,
        options |-> Spread(mcqProxyOptions, [pathRewrite |-> aiMcqGenerator])],
       [path |-> youtubeAiQuizzer,
        options |-> Spread(aimcqOptions, [pathRewrite |-> youtubeAiQuizzer])],
       [path |-> bookmarkManager,
        options |-> Spread(bookmarkOptions, [pathRewrite |-> bookmarkManager])],
       [path |-> movieHub,
        options |-> Spread(movieOptions, [pathRewrite |-> movieHub])],
       [path |-> todoList,
        options |-> Spread(todoOptions, [pathRewrite |-> todoList])] >>

\* The options of the catch-all proxy: three objects spread into one.
catchAllOptions == Spread(Spread(mcqProxyOptions, aimcqOptions), bookmarkOptions)

serverJsMountFor(path) ==
    find({k \in 1..Len(serverJsMounts) : MountMatches(serverJsMounts[k].path, path)})

ServerJsUrls ==
    {slash, submit, css \o x, mcq \o x,
     aiMcqGenerator, aiMcqGenerator \o x, bookmarkManager \o x, movieHub \o slash}

InitServerJs ==
    /\ pc = [c \in Clients |-> "idle"]
    /\ req = [c \in Clients |-> NoReq]
    /\ fwd = [c \in Clients |-> NoFwd]
    /\ proxyRes = [c \in Clients |-> NoProxyRes]
    /\ res = [c \in Clients |-> NoRes]
    /\ jar = [c \in Clients |-> Absent]
    /\ lastExplicit = [c \in Clients |-> 0]
    /\ boot = Listening(serverJsMounts)

\* A request arrives; server.js reads neither Referer nor cookie.
ServerJsArrive(c) == ArriveFrom(c, Methods, ServerJsUrls, {Absent}, {Absent})

\* The five mounted proxies: the first whose path takes the request
\* forwards it, the prefix rewritten to "/".
ServerJsExplicit(c) ==
    /\ pc[c] = "explicit"
    /\ LET k == serverJsMountFor(PathName(req[c].url))
       IN IF k # 0
          THEN /\ req' = [req EXCEPT ![c].url = MountedUrl(serverJsMounts[k].path, @)]
               /\ fwd' = [fwd EXCEPT ![c] =
                            [app |-> k, via |-> "explicit",
                             target |-> serverJsMounts[k].options.target,
                             path |-> OutgoingPath(pathRewritePrefix(
                                         serverJsMounts[k].options.pathRewrite,
                                         req[c].originalUrl)),
                             attempts |-> 1]]
               /\ pc' = [pc EXCEPT ![c] = "proxying"]
          ELSE /\ pc' = [pc EXCEPT ![c] = "fallback"]
               /\ UNCHANGED <<req, fwd>>
    /\ UNCHANGED <<proxyRes, res, jar, lastExplicit, boot>>

\* The catch-all: every request that comes this far is proxied, without
\* pathRewrite, with the spread options.
ServerJsCatchAll(c) ==
    /\ pc[c] = "fallback"
    /\ fwd' = [fwd EXCEPT ![c] =
                 [app |-> 0, via |-> "catchAll",
                  target |-> catchAllOptions.target,
                  path |-> OutgoingPath(req[c].originalUrl),
                  attempts |-> 1]]
    /\ pc' = [pc EXCEPT ![c] = "proxying"]
    /\ UNCHANGED <<req, proxyRes, res, jar, lastExplicit, boot>>

\* onProxyRes of server.js logs the status: the answer passes as it is.
ServerJsProxyRes(c) ==
    /\ pc[c] = "proxying"
    /\ \E st \in FairStatuses, loc \in FairLocations :
          /\ proxyRes' = [proxyRes EXCEPT ![c] = [statusCode |-> st, location |-> loc]]
          /\ res' = [res EXCEPT ![c] = [@ EXCEPT !.kind = "proxied",
                                                 !.status = st,
                                                 !.location = loc]]
    /\ pc' = [pc EXCEPT ![c] = "responded"]
    /\ UNCHANGED <<req, fwd, jar, lastExplicit, boot>>

NextServerJs ==
    \E c \in Solo :
        \/ ServerJsArrive(c)
        \/ Static(c)
        \/ Homepage(c)
        \/ ServerJsExplicit(c)
        \/ ServerJsCatchAll(c)
        \/ ServerJsProxyRes(c)
        \/ ProxyError(c)
        \/ Deliver(c)

SpecServerJs == InitServerJs /\ [][NextServerJs]_vars

-----------------------------------------------------------------------------
(* Vocabulary of the properties.                                           *)

\* The request of c has left the stage named, i.e. the chain has decided it.
Decided(c) == pc[c] \in {"notFound", "proxying", "responded"}

\* The request of c was answered by the router's own pages (the static
\* handler or the homepage route), which are outside the routing logic.
OwnPage(c) == res[c].kind \in {"static", "landing"}

Forwarded(c) == fwd[c].app # 0

\* The URL is the prefix of registry entry i followed by a remainder that is
\* empty or begins with "/".
HasPrefixOf(i, u) ==
    /\ startsWith(u, proxiedApps[i].path)
    /\ \/ Len(u) = Len(proxiedApps[i].path)
       \/ u[Len(proxiedApps[i].path) + 1] = "/"

\* The request carries no tenant prefix in any sense: no mounted route
\* takes its path and its URL does not begin with the characters of one.
PrefixLess(r) ==
    /\ MountFor(PathName(r.originalUrl)) = 0
    /\ ~isExplicitProxiedPath(r)

\* The value the affinity cookie of a response denotes.
SetCookieValue(c) == decodeURIComponent(res[c].setCookie)

-----------------------------------------------------------------------------
(* C1: a request for T.pathPrefix followed by a remainder r that begins    *)
(* with "/" is forwarded to T's backend with path exactly r (the prefix is *)
(* removed once, no "/" is added); a request for exactly T.pathPrefix is   *)
(* forwarded with path "/".                                                *)
C1_PrefixRemovedOnce ==
    \A c \in Clients, i \in AppIdx :
        (/\ pc[c] \in {"fallback", "notFound", "proxying", "responded"}
         /\ HasPrefixOf(i, req[c].originalUrl))
        => LET r == Tail0(req[c].originalUrl, Len(proxiedApps[i].path))
           IN /\ fwd[c].target = proxiedApps[i].target
              /\ fwd[c].path = IF r = <<>> THEN slash ELSE r

C1_Witness ==
    \E c \in Clients :
        /\ pc[c] = "proxying"
        /\ req[c].originalUrl = movieHub \o x
        /\ fwd[c].target = proxiedApps[1].target
        /\ fwd[c].path = x

(* C2: the response to a request that a tenant prefix T matched explicitly *)
(* carries the affinity cookie with value T.pathPrefix, whatever cookie    *)
(* the request carried.                                                    *)
C2_ExplicitSetsCookie ==
    \A c \in Clients, i \in AppIdx :
        (/\ pc[c] = "responded"
         /\ HasPrefixOf(i, req[c].originalUrl))
        => /\ Truthy(res[c].setCookie)
           /\ SetCookieValue(c) = proxiedApps[i].path

C2_Witness ==
    \E c \in Clients :
        /\ pc[c] = "responded"
        /\ req[c].originalUrl = movieHub \o x
        /\ cookieParser(req[c]) = mcq
        /\ SetCookieValue(c) = movieHub

(* C3: when the client's most recent explicitly routed request went to     *)
(* tenant T, a following request of that client that has no tenant prefix  *)
(* and no Referer, is not answered by the router's own pages, and carries  *)
(* the token the client holds, is forwarded to T's backend with its path   *)
(* unmodified.                                                             *)
C3_TokenFollowsLastExplicit ==
    \A c \in Clients :
        (/\ Decided(c)
         /\ ~OwnPage(c)
         /\ lastExplicit[c] # 0
         /\ PrefixLess(req[c])
         /\ ~isHomepage(req[c])
         /\ ~Truthy(req[c].referer)
         /\ Truthy(jar[c])
         /\ req[c].cookie = jar[c])
        => /\ fwd[c].app = lastExplicit[c]
           /\ fwd[c].target = proxiedApps[lastExplicit[c]].target
           /\ fwd[c].path = req[c].originalUrl

C3_Witness ==
    \E c \in Clients :
        /\ pc[c] = "proxying"
        /\ lastExplicit[c] = 4
        /\ req[c].method = "POST"
        /\ req[c].originalUrl = submit
        /\ req[c].referer = Absent
        /\ req[c].cookie = jar[c]
        /\ fwd[c].target = proxiedApps[4].target
        /\ fwd[c].path = submit

\* The backend's answer is a redirect (300-399) with a root-relative
\* Location.
RootRelativeRedirect(c) ==
    /\ pc[c] = "responded"
    /\ res[c].kind = "proxied"
    /\ proxyRes[c].statusCode >= 300
    /\ proxyRes[c].statusCode <= 399
    /\ startsWith(proxyRes[c].location, slash)

\* The Location begins with a registered prefix.
TenantPrefixed(loc) == \E i \in AppIdx : startsWith(loc, proxiedApps[i].path)

(* C4: for a request forwarded to tenant T (by prefix, Referer or token),  *)
(* whatever Referer and cookie it carries, a 300-399 answer with a         *)
(* root-relative Location that is not tenant-prefixed reaches the client   *)
(* with Location T.pathPrefix followed by the backend's Location.          *)
C4_RedirectRehomedToOwner ==
    \A c \in Clients :
        (/\ RootRelativeRedirect(c)
         /\ Forwarded(c)
         /\ ~TenantPrefixed(proxyRes[c].location))
        => res[c].location = proxiedApps[fwd[c].app].path \o proxyRes[c].location

(* C5: for a request routed to tenant T, a 3xx answer whose Location       *)
(* already starts with T.pathPrefix reaches the client unchanged.          *)
C5_NoDoublePrefix ==
    \A c \in Clients :
        (/\ RootRelativeRedirect(c)
         /\ Forwarded(c)
         /\ startsWith(proxyRes[c].location, proxiedApps[fwd[c].app].path))
        => res[c].location = proxyRes[c].location

(* C6: a GET for path "/" is answered with the landing page and is never   *)
(* forwarded, for every Referer and every cookie.                          *)
C6_HomepageNeverForwarded ==
    \A c \in Clients :
        (/\ req[c].method = "GET"
         /\ PathName(req[c].originalUrl) = slash
         /\ pc[c] \notin {"idle", "static", "homepage"})
        => /\ pc[c] = "responded"
           /\ OwnPage(c)
           /\ res[c].status = 200
           /\ ~Forwarded(c)

C6_Witness ==
    \E c \in Clients :
        /\ pc[c] = "responded"
        /\ req[c].method = "GET"
        /\ req[c].originalUrl = slash
        /\ req[c].referer = h \o mcq \o slash
        /\ cookieParser(req[c]) = movieHub
        /\ res[c].kind = "landing"

\* The request carries a hint the router accepts.
RefererNamesTenant(r) == \E i \in AppIdx : includes(r.referer, proxiedApps[i].path)
TokenValid(r) == \E i \in AppIdx : cookieParser(r) = proxiedApps[i].path
ExplicitlyMatched(r) == MountFor(PathName(r.originalUrl)) # 0

(* C7: a request is forwarded only if a tenant prefix matched it, or its   *)
(* Referer names a tenant, or its token equals a registered prefix; every  *)
(* other request that the router's own pages do not answer ends with 404   *)
(* and is forwarded nowhere.                                               *)
C7_UnresolvedIsNotFound ==
    \A c \in Clients :
        /\ Forwarded(c)
            => \/ ExplicitlyMatched(req[c])
               \/ RefererNamesTenant(req[c])
               \/ TokenValid(req[c])
        /\ (/\ pc[c] = "responded"
            /\ ~OwnPage(c)
            /\ ~ExplicitlyMatched(req[c])
            /\ ~RefererNamesTenant(req[c])
            /\ ~TokenValid(req[c]))
            => /\ res[c].kind = "notFound"
               /\ res[c].status = 404
               /\ ~Forwarded(c)

C7_Witness ==
    \E c \in Clients :
        /\ pc[c] = "responded"
        /\ req[c].method = "POST"
        /\ req[c].originalUrl = submit
        /\ req[c].referer = h \o slash
        /\ cookieParser(req[c]) = stale
        /\ res[c].status = 404
        /\ ~Forwarded(c)

\* The same request without its cookie.
WithoutToken(r) == [r EXCEPT !.cookie = Absent]

(* C8: a token that names no registered prefix changes nothing: the        *)
(* request is routed, and its redirect rewritten, as the same request      *)
(* without a token is; with no Referer and no explicit match it ends 404.  *)
C8_UnknownTokenIsAbsent ==
    \A c \in Clients :
        (/\ pc[c] = "responded"
         /\ Truthy(req[c].cookie)
         /\ ~TokenValid(req[c]))
        => LET r0 == WithoutToken(req[c])
           IN /\ fwd[c].via # "cookie"
              /\ fwd[c].app =
                    IF ExplicitlyMatched(r0) THEN MountFor(PathName(r0.originalUrl))
                    ELSE IF OwnPage(c) \/ FallbackSkips(r0) THEN 0
                    ELSE sourceAppConfig(r0).app
              /\ res[c].kind = "proxied" => res[c].location = onProxyRes(proxyRes[c], r0)
              /\ (/\ ~OwnPage(c)
                  /\ ~Truthy(req[c].referer)
                  /\ ~ExplicitlyMatched(req[c]))
                  => res[c].status = 404 /\ ~Forwarded(c)

C8_Witness ==
    \E c \in Clients :
        /\ pc[c] = "responded"
        /\ req[c].originalUrl = submit
        /\ req[c].referer = Absent
        /\ cookieParser(req[c]) = stale
        /\ res[c].status = 404
        /\ ~Forwarded(c)

(* C9: a path that starts with the characters of a tenant prefix but       *)
(* continues inside the same segment is no explicit match, is not          *)
(* stripped, and is resolved like any other prefix-less request: with a    *)
(* valid token or a matching Referer it is forwarded to the inferred       *)
(* tenant with its path unmodified.                                        *)
C9_SegmentBoundary ==
    \A c \in Clients :
        (/\ pc[c] = "responded"
         /\ ~OwnPage(c)
         /\ ~ExplicitlyMatched(req[c])
         /\ ~isHomepage(req[c])
         /\ sourceAppConfig(req[c]).app # 0)
        => /\ fwd[c].app = sourceAppConfig(req[c]).app
           /\ fwd[c].via # "explicit"
           /\ fwd[c].path = req[c].originalUrl

(* C10: when the fallback resolves a prefix-less request to tenant T, by   *)
(* Referer or by token, the response carries the affinity cookie with      *)
(* value T.pathPrefix.                                                     *)
C10_FallbackRefreshesToken ==
    \A c \in Clients :
        (/\ pc[c] = "responded"
         /\ fwd[c].via \in {"referer", "cookie"})
        => SetCookieValue(c) = proxiedApps[fwd[c].app].path

-----------------------------------------------------------------------------
\* The tenant the chain resolves request r to (0 for none): the mounted
\* route that takes its path, else the fallback's resolution.
ResolvedTenant(r) ==
    IF ExplicitlyMatched(r) THEN MountFor(PathName(r.originalUrl))
    ELSE IF FallbackSkips(r) THEN 0
    ELSE sourceAppConfig(r).app

\* The transport reported a failure for the request of c.
Failed(c) == pc[c] = "responded" /\ res[c].kind = "proxyError"

\* What decides the routing of the requests to come: every client's cookie
\* and every other client's request in flight.
RoutingStateBut(c) ==
    <<jar, lastExplicit,
      [d \in Clients \ {c} |-> <<pc[d], req[d], fwd[d], proxyRes[d], res[d]>>]>>

(* C11: a request routed to tenant T whose forward fails is answered 500;  *)
(* the forward was attempted exactly once, to T's backend and no other;    *)
(* and the failure changes nothing that routes any other request.          *)
C11_FailureContained ==
    /\ [](\A c \in Clients :
            Failed(c) =>
                /\ res[c].status = 500
                /\ fwd[c].attempts = 1
                /\ fwd[c].app = ResolvedTenant(req[c])
                /\ fwd[c].target = proxiedApps[fwd[c].app].target)
    /\ [][\A c \in Clients :
            (~Failed(c) /\ Failed(c)') => RoutingStateBut(c)' = RoutingStateBut(c)]_vars

C11_Witness ==
    \E c \in Clients :
        /\ Failed(c)
        /\ req[c].originalUrl = movieHub \o x
        /\ fwd[c].target = proxiedApps[1].target
        /\ fwd[c].attempts = 1
        /\ res[c].status = 500

(* C12: when two descriptors of the registry share a pathPrefix, startup   *)
(* fails: the process never reaches the state in which it accepts          *)
(* requests.                                                               *)
C12_DuplicatePrefixRefused ==
    HasDuplicatePrefix(boot.registry) => boot.phase # "listening"

\* The registry entries whose prefix the Referer of the request contains.
RefererTenants(r) == {i \in AppIdx : includes(r.referer, proxiedApps[i].path)}

(* C13: a request with no tenant prefix that the router's own pages do not *)
(* answer and whose Referer contains the prefix of a tenant is forwarded,  *)
(* path unmodified, to a tenant its Referer names, whatever token it       *)
(* carries; the token decides only when the Referer names no tenant.       *)
C13_RefererBeforeToken ==
    \A c \in Clients :
        (/\ Decided(c)
         /\ ~OwnPage(c)
         /\ PrefixLess(req[c]))
        => /\ RefererTenants(req[c]) # {}
                => /\ fwd[c].app \in RefererTenants(req[c])
                   /\ fwd[c].via = "referer"
                   /\ fwd[c].target = proxiedApps[fwd[c].app].target
                   /\ fwd[c].path = req[c].originalUrl
           /\ fwd[c].via = "cookie" => RefererTenants(req[c]) = {}

C13_Witness ==
    \E c \in Clients :
        /\ pc[c] = "proxying"
        /\ req[c].originalUrl = submit
        /\ req[c].referer = h \o mcq \o slash
        /\ cookieParser(req[c]) = movieHub
        /\ fwd[c].via = "referer"
        /\ fwd[c].target = proxiedApps[4].target

\* The backend's answer is not a redirect with a root-relative Location.
NotRootRelativeRedirect(pr) ==
    \/ pr.statusCode < 300
    \/ pr.statusCode > 399
    \/ pr.location = Absent
    \/ ~startsWith(pr.location, slash)

(* C14: a forwarded response reaches the client with the backend's status, *)
(* and the cookie header the router had set, in every case; and with the   *)
(* backend's Location when the status is outside 300-399, there is no      *)
(* Location, or the Location does not start with "/".                      *)
C14_RewriterFrame ==
    \A c \in Clients :
        (pc[c] = "responded" /\ res[c].kind = "proxied")
        => /\ res[c].status = proxyRes[c].statusCode
           /\ res[c].setCookie =
                 (IF fwd[c].via = "explicit"
                  THEN encodeURIComponent(proxiedApps[fwd[c].app].path)
                  ELSE Absent)
           /\ NotRootRelativeRedirect(proxyRes[c])
                => res[c].location = proxyRes[c].location

C14_Witness ==
    \E c \in Clients :
        /\ pc[c] = "responded"
        /\ res[c].kind = "proxied"
        /\ fwd[c].via = "explicit"
        /\ proxyRes[c].statusCode = 400
        /\ proxyRes[c].location = done
        /\ res[c].status = 400
        /\ res[c].location = done

RegisteredPrefix(v) == \E i \in AppIdx : v = proxiedApps[i].path
RegisteredTarget(t) == \E i \in AppIdx : t = proxiedApps[i].target

(* C15: every affinity cookie a response sets, and every cookie a browser  *)
(* took from a response, holds the prefix of a registry entry; every       *)
(* forward goes to the target of a registry entry, whatever cookie and     *)
(* Referer the client sent.                                                *)
C15_RegistryOnly ==
    \A c \in Clients :
        /\ Truthy(res[c].setCookie) => RegisteredPrefix(SetCookieValue(c))
        /\ Truthy(jar[c]) => RegisteredPrefix(decodeURIComponent(jar[c]))
        /\ fwd[c] # NoFwd => RegisteredTarget(fwd[c].target)

C15_Witness ==
    \E c \in Clients :
        /\ pc[c] = "responded"
        /\ cookieParser(req[c]) = stale
        /\ req[c].originalUrl = mcq \o x
        /\ SetCookieValue(c) = mcq
        /\ fwd[c].target = proxiedApps[4].target

\* The forward of an explicitly routed request failed.
ExplicitFailed(c) == Failed(c) /\ fwd[c].via = "explicit"

(* C19: the proxy-error response to an explicit-prefix request for tenant  *)
(* T sets the affinity cookie to T's prefix; the browser that takes the    *)
(* response holds that token; and a request without tenant prefix and      *)
(* without a Referer naming a tenant that carries the token held by the    *)
(* browser is forwarded to the tenant the token names.                     *)
C19_CookieSurvivesFailure ==
    /\ [](\A c \in Clients :
            /\ ExplicitFailed(c) => SetCookieValue(c) = proxiedApps[fwd[c].app].path
            /\ (/\ Decided(c)
                /\ ~OwnPage(c)
                /\ PrefixLess(req[c])
                /\ RefererTenants(req[c]) = {}
                /\ Truthy(jar[c])
                /\ req[c].cookie = jar[c])
               => /\ Forwarded(c)
                  /\ proxiedApps[fwd[c].app].path = decodeURIComponent(jar[c]))
    /\ [][\A c \in Clients :
            (ExplicitFailed(c) /\ pc'[c] = "idle")
            => decodeURIComponent(jar'[c]) = proxiedApps[fwd[c].app].path]_vars

C19_Witness ==
    \E c \in Clients :
        /\ ExplicitFailed(c)
        /\ req[c].cookie = Absent
        /\ req[c].originalUrl = mcq \o slash
        /\ SetCookieValue(c) = mcq

\* The steps a request takes from one stage to the next.
StageSteps ==
    {<<"idle", "static">>,
     <<"static", "responded">>, <<"static", "homepage">>,
     <<"homepage", "responded">>, <<"homepage", "explicit">>,
     <<"explicit", "proxying">>, <<"explicit", "fallback">>,
     <<"fallback", "proxying">>, <<"fallback", "notFound">>,
     <<"notFound", "responded">>,
     <<"proxying", "responded">>,
     <<"responded", "idle">>}

\* The outcome of a request that has its response.
Outcomes == {"static", "landing", "proxied", "proxyError", "notFound"}

(* C17: a request passes static handler, homepage, explicit routes,        *)
(* fallback and 404 handler in that order; it has no response before its   *)
(* terminal step and one outcome after it, which no later step changes; a  *)
(* forward is made at most once, and never together with a page of the     *)
(* router or a 404; and, the transport answering or failing, every request *)
(* received gets its response.                                             *)
C17_OrderedToOneOutcome ==
    /\ [][\A c \in Clients :
            /\ pc'[c] # pc[c] => <<pc[c], pc'[c]>> \in StageSteps
            /\ (res[c].kind # "none" /\ pc'[c] # "idle") => res'[c].kind = res[c].kind
            /\ (fwd[c] # NoFwd /\ pc'[c] # "idle") => fwd'[c] = fwd[c]]_vars
    /\ [](\A c \in Clients :
            /\ pc[c] = "responded" <=> res[c].kind \in Outcomes
            /\ pc[c] # "responded" => res[c].kind = "none"
            /\ res[c].kind \in {"static", "landing", "notFound"} => fwd[c] = NoFwd
            /\ res[c].kind \in {"proxied", "proxyError"} => Forwarded(c)
            /\ pc[c] = "proxying" => Forwarded(c)
            /\ fwd[c].attempts <= 1)
    /\ \A c \in Clients : (pc[c] # "idle") ~> (pc[c] = "responded")

C17_Witness ==
    \E c \in Clients :
        /\ pc[c] = "responded"
        /\ res[c].kind = "notFound"
        /\ req[c].method = "POST"
        /\ req[c].originalUrl = submit
        /\ req[c].referer = Absent
        /\ fwd[c] = NoFwd

\* What the server and the browser hold for client d.
ClientState(d) == <<pc[d], req[d], fwd[d], proxyRes[d], res[d], jar[d], lastExplicit[d]>>

\* Two clients sent the same request.
SameRequest(c, d) ==
    /\ req[c].method = req[d].method
    /\ req[c].originalUrl = req[d].originalUrl
    /\ req[c].referer = req[d].referer
    /\ req[c].cookie = req[d].cookie

(* C16: a step taken for one client's request leaves what is held for any  *)
(* other client as it was; and two clients that sent the same request have *)
(* the same forward (target and path) or none, the same cookie set, the    *)
(* same 404 and, for the same backend answer, the same response, however   *)
(* their requests interleaved with each other and with earlier requests.   *)
C16_NoSharedState ==
    /\ [][\E c \in Clients :
            \A d \in Clients \ {c} : ClientState(d)' = ClientState(d)]_vars
    /\ [](\A c, d \in Clients :
            (SameRequest(c, d) /\ Decided(c) /\ Decided(d))
            => /\ fwd[c] = fwd[d]
               /\ res[c].setCookie = res[d].setCookie
               /\ (pc[c] = "notFound" \/ res[c].kind = "notFound")
                     <=> (pc[d] = "notFound" \/ res[d].kind = "notFound")
               /\ (/\ pc[c] = "responded"
                   /\ pc[d] = "responded"
                   /\ res[c].kind = res[d].kind
                   /\ proxyRes[c] = proxyRes[d])
                  => res[c] = res[d])

\* One client waits for the backend of one tenant while the other, which
\* sent its request in between, has the answer of another tenant's backend.
C16_Witness ==
    /\ pc["c1"] = "proxying"
    /\ fwd["c1"].target = proxiedApps[4].target
    /\ req["c1"].originalUrl = submit
    /\ req["c1"].referer = h \o mcq \o slash
    /\ pc["c2"] = "responded"
    /\ res["c2"].kind = "proxied"
    /\ fwd["c2"].target = proxiedApps[1].target
    /\ res["c2"].location = movieHub \o done
    /\ decodeURIComponent(jar["c1"]) = movieHub

(* C18: in server.js a request that neither the static handler, nor the   *)
(* homepage route, nor a mounted proxy takes is forwarded by the catch-all *)
(* to http://34.134.191.116:5002 with its path unchanged.                  *)
C18_CatchAllToMcq ==
    \A c \in Clients :
        fwd[c].via = "catchAll"
        => /\ fwd[c].target = "http://34.134.191.116:5002"
           /\ fwd[c].path = req[c].originalUrl

====
